---- MODULE Spec2Model ----
(***************************************************************************)
(* Quota ledgers of the vault: the client ledger                           *)
(* (src/src/maid_manager/database.rs: MaidManagerAccount and               *)
(* MaidManagerDatabase) and the node ledger                                *)
(* (src/src/pmid_manager/database.rs: PmidManagerAccount and               *)
(* PmidManagerDatabase).                                                   *)
(*                                                                         *)
(* Every amount in the program is a u64.  TLC's integers are 32 bits wide, *)
(* so a u64 is held here as three limbs <<hi, mid, lo>> of value           *)
(* hi * 2^60 + mid * 2^30 + lo, with hi in 0..15 and mid, lo in            *)
(* 0..2^30-1; U64(n) writes a small amount n in that form.  Addition and   *)
(* subtraction are carried out limb by limb and report the carry out of    *)
(* (the borrow into) bit 63, which is what decides between Rust's two      *)
(* build flavours: with overflow checks the operation panics, without      *)
(* them the result wraps modulo 2^64.                                      *)
(***************************************************************************)
EXTENDS Integers, Sequences, FiniteSets, TLC

VARIABLES
    maid_storage,     \* MaidManagerDatabase.storage : Identity -> MaidManagerAccount
    pmid_storage,     \* PmidManagerDatabase.storage : Identity -> PmidManagerAccount
    pmid_account,     \* one PmidManagerAccount driven through its own methods
    call,             \* the last call: what was called, with what, and what it gave
    steps,            \* number of calls made so far
    overflow_checks,  \* build flavour: TRUE = arithmetic overflow panics, FALSE = wraps
    panicked,         \* TRUE once a call has panicked (the thread is gone)
    frame             \* several actors on one store: who holds the store's
                      \* &mut borrow, and the retrieve_all_and_reset in progress

vars == <<maid_storage, pmid_storage, pmid_account, call, steps,
          overflow_checks, panicked, frame>>

----------------------------------------------------------------------------
(* Bounds of the exploration. *)

\* The identities are 1..NumIdentities.
NumIdentities == 2
\* Calls made in one behaviour of a store.
MaxSteps == 4
\* Calls made in one behaviour of a single node account.
MaxAccountSteps == 3
\* Longest close_group handed to the node store's drain.
MaxGroupLen == 2
\* The actors that share one store are 1..NumActors.
NumActors == 2
\* Calls made in one behaviour of a store shared by several actors.
MaxActorSteps == 3

----------------------------------------------------------------------------
(* u64 *)

LimbBits == 30
LimbBase == 2 ^ LimbBits
\* Number of values of the top limb: bits 60..63.
HiBase == 16

U64(n) == <<0, n \div LimbBase, n % LimbBase>>

U64Max == <<HiBase - 1, LimbBase - 1, LimbBase - 1>>

\* a < b
U64Lt(a, b) ==
    \/ a[1] < b[1]
    \/ a[1] = b[1] /\ a[2] < b[2]
    \/ a[1] = b[1] /\ a[2] = b[2] /\ a[3] < b[3]

\* a > b
U64Gt(a, b) == U64Lt(b, a)

\* a <= b
U64Le(a, b) == ~U64Lt(b, a)

\* a + b: the sum modulo 2^64, and whether the true sum exceeds 2^64 - 1.
U64Add(a, b) ==
    LET lo == a[3] + b[3]
        c1 == lo \div LimbBase
        mid == a[2] + b[2] + c1
        c2 == mid \div LimbBase
        hi == a[1] + b[1] + c2
    IN  [val |-> <<hi % HiBase, mid % LimbBase, lo % LimbBase>>,
         overflow |-> hi >= HiBase]

\* a - b: the difference modulo 2^64, and whether the true difference is below 0.
U64Sub(a, b) ==
    LET lo == a[3] - b[3]
        b1 == IF lo < 0 THEN 1 ELSE 0
        mid == a[2] - b[2] - b1
        b2 == IF mid < 0 THEN 1 ELSE 0
        hi == a[1] - b[1] - b2
    IN  [val |-> <<hi % HiBase, mid % LimbBase, lo % LimbBase>>,
         overflow |-> hi < 0]

----------------------------------------------------------------------------
(* Inputs *)

\* type Identity = NameType
Identity == 1 .. NumIdentities

\* The default grant of MaidManagerAccount::new and PmidManagerAccount::new.
DefaultGrant == 1073741824

\* The sizes the calls are made with: around 0, around the grant, and the
\* largest u64.
Sizes == { U64(0), U64(1), U64(DefaultGrant - 1), U64(DefaultGrant),
           U64(DefaultGrant + 1), U64Max }

\* All sequences over S of length at most n.
RECURSIVE SeqsUpTo(_, _)
SeqsUpTo(S, n) ==
    IF n = 0 THEN { <<>> }
    ELSE LET shorter == SeqsUpTo(S, n - 1)
         IN  shorter \cup { Append(s, x) : s \in shorter, x \in S }

\* All orders in which the elements of S can be listed, each once.
RECURSIVE Orders(_)
Orders(S) ==
    IF S = {} THEN { <<>> }
    ELSE UNION { { <<x>> \o s : s \in Orders(S \ {x}) } : x \in S }

----------------------------------------------------------------------------
(* Arithmetic statements.  An outcome is [self, ret, panic]: the account as
   the call has left it so far, the value returned, and whether the call
   has panicked.  A statement after a panic is not executed. *)

Running(self) == [self |-> self, ret |-> FALSE, panic |-> FALSE]

Return(o, value) == IF o.panic THEN o ELSE [o EXCEPT !.ret = value]

\* self.field += amount
AddAssign(o, field, amount) ==
    IF o.panic THEN o
    ELSE LET r == U64Add(o.self[field], amount)
         IN  IF r.overflow /\ overflow_checks
             THEN [o EXCEPT !.panic = TRUE]
             ELSE [o EXCEPT !.self[field] = r.val]

\* self.field -= amount
SubAssign(o, field, amount) ==
    IF o.panic THEN o
    ELSE LET r == U64Sub(o.self[field], amount)
         IN  IF r.overflow /\ overflow_checks
             THEN [o EXCEPT !.panic = TRUE]
             ELSE [o EXCEPT !.self[field] = r.val]

\* self.field = value
Assign(o, field, value) ==
    IF o.panic THEN o ELSE [o EXCEPT !.self[field] = value]

----------------------------------------------------------------------------
(* The codec: cbor::Encoder::encode of one account.  A derived Encodable
   struct is written as a CBOR map from field name to value (RFC 7049),
   each u64 in the shortest of the five unsigned forms. *)

\* The eight bytes of a u64, most significant first.
U64Bytes(v) ==
    << v[1] * 16 + v[2] \div (2 ^ 26),
       (v[2] \div (2 ^ 18)) % 256,
       (v[2] \div (2 ^ 10)) % 256,
       (v[2] \div 4) % 256,
       (v[2] % 4) * 64 + v[3] \div (2 ^ 24),
       (v[3] \div (2 ^ 16)) % 256,
       (v[3] \div (2 ^ 8)) % 256,
       v[3] % 256 >>

\* Major type 0: an unsigned integer.
CborUint(v) ==
    LET b == U64Bytes(v)
    IN  IF v[1] = 0 /\ v[2] = 0 /\ v[3] < 24 THEN << v[3] >>
        ELSE IF v[1] = 0 /\ v[2] = 0 /\ v[3] < 256 THEN << 24, b[8] >>
        ELSE IF v[1] = 0 /\ v[2] = 0 /\ v[3] < 65536 THEN << 25, b[7], b[8] >>
        ELSE IF v[1] = 0 /\ v[2] < 4 THEN << 26, b[5], b[6], b[7], b[8] >>
        ELSE << 27 >> \o b

\* Major type 3: a text string shorter than 24 bytes, given as its bytes.
CborText(bytes) == << 96 + Len(bytes) >> \o bytes

\* Major type 5: the head of a map of n < 24 pairs.
CborMapHead(n) == << 160 + n >>

Name_data_stored == <<100, 97, 116, 97, 95, 115, 116, 111, 114, 101, 100>>
Name_space_available ==
    <<115, 112, 97, 99, 101, 95, 97, 118, 97, 105, 108, 97, 98, 108, 101>>
Name_stored_total_size ==
    <<115, 116, 111, 114, 101, 100, 95, 116, 111, 116, 97, 108, 95, 115, 105, 122, 101>>
Name_lost_total_size ==
    <<108, 111, 115, 116, 95, 116, 111, 116, 97, 108, 95, 115, 105, 122, 101>>
Name_offered_space ==
    <<111, 102, 102, 101, 114, 101, 100, 95, 115, 112, 97, 99, 101>>

\* #[derive(RustcEncodable)] of MaidManagerAccount
EncodeMaidManagerAccount(a) ==
    CborMapHead(2)
      \o CborText(Name_data_stored) \o CborUint(a.data_stored)
      \o CborText(Name_space_available) \o CborUint(a.space_available)

\* #[derive(RustcEncodable)] of PmidManagerAccount
EncodePmidManagerAccount(a) ==
    CborMapHead(3)
      \o CborText(Name_stored_total_size) \o CborUint(a.stored_total_size)
      \o CborText(Name_lost_total_size) \o CborUint(a.lost_total_size)
      \o CborText(Name_offered_space) \o CborUint(a.offered_space)

\* GenericSendableType::new(name, 0, serialised_content)
GenericSendableType(name, type_tag, serialised_content) ==
    [name |-> name, type_tag |-> type_tag, serialised_content |-> serialised_content]

----------------------------------------------------------------------------
(* MaidManagerAccount *)

MaidManagerAccount_new ==
    [data_stored |-> U64(0), space_available |-> U64(DefaultGrant)]

\* put_data that credits data_stored and forgets to debit space_available.
MaidManagerAccount_put_data_NoDebit(self, size) ==
    IF U64Gt(size, self.space_available)
    THEN Return(Running(self), FALSE)
    ELSE Return(AddAssign(Running(self), "data_stored", size), TRUE)

\* put_data that refuses size >= space_available.
MaidManagerAccount_put_data_Ge(self, size) ==
    IF ~U64Lt(size, self.space_available)
    THEN Return(Running(self), FALSE)
    ELSE Return(SubAssign(AddAssign(Running(self), "data_stored", size),
                          "space_available", size),
                TRUE)

MaidManagerAccount_put_data(self, size) ==
    IF U64Gt(size, self.space_available)
    THEN Return(Running(self), FALSE)
    ELSE Return(SubAssign(AddAssign(Running(self), "data_stored", size),
                          "space_available", size),
                TRUE)

\* delete_data that reclaims the requested size in the floor branch.
MaidManagerAccount_delete_data_ReclaimSize(self, size) ==
    IF U64Lt(self.data_stored, size)
    THEN Assign(AddAssign(Running(self), "space_available", size),
                "data_stored", U64(0))
    ELSE AddAssign(SubAssign(Running(self), "data_stored", size),
                   "space_available", size)

MaidManagerAccount_delete_data(self, size) ==
    IF U64Lt(self.data_stored, size)
    THEN Assign(AddAssign(Running(self), "space_available", self.data_stored),
                "data_stored", U64(0))
    ELSE AddAssign(SubAssign(Running(self), "data_stored", size),
                   "space_available", size)

----------------------------------------------------------------------------
(* MaidManagerDatabase: the operations as functions of the storage. *)

MaidManagerDatabase_new == << >>

MaidManagerDatabase_exist(storage, name) == name \in DOMAIN storage

\* storage.entry(name).or_insert(account)
OrInsert(storage, name, account) ==
    [n \in DOMAIN storage \cup {name} |->
        IF n \in DOMAIN storage THEN storage[n] ELSE account]

\* A write through the entry that lands in every entry of the map.
WithEntry_Everywhere(storage, name, account) == [n \in DOMAIN storage |-> account]

\* The storage with the entry of name set to account.
WithEntry(storage, name, account) == [storage EXCEPT ![name] = account]

\* [storage, ret, panic]
MaidManagerDatabase_put_data(storage, name, size) ==
    LET inserted == OrInsert(storage, name, MaidManagerAccount_new)
        o == MaidManagerAccount_put_data(inserted[name], size)
    IN  [storage |-> WithEntry(inserted, name, o.self),
         ret |-> o.ret, panic |-> o.panic]

\* delete_data that reaches the entry through entry().or_insert(), as put_data does.
MaidManagerDatabase_delete_data_OrInsert(storage, name, size) ==
    LET inserted == OrInsert(storage, name, MaidManagerAccount_new)
        o == MaidManagerAccount_delete_data(inserted[name], size)
    IN  [storage |-> WithEntry(inserted, name, o.self), panic |-> o.panic]

\* delete_data that drops an entry once nothing is stored in it.
MaidManagerDatabase_delete_data_RemoveEmpty(storage, name, size) ==
    IF name \in DOMAIN storage
    THEN LET o == MaidManagerAccount_delete_data(storage[name], size)
         IN  IF o.self.data_stored = U64(0)
             THEN [storage |-> [n \in DOMAIN storage \ {name} |-> storage[n]],
                   panic |-> o.panic]
             ELSE [storage |-> WithEntry(storage, name, o.self), panic |-> o.panic]
    ELSE [storage |-> storage, panic |-> FALSE]

\* [storage, panic]
MaidManagerDatabase_delete_data(storage, name, size) ==
    IF name \in DOMAIN storage
    THEN LET o == MaidManagerAccount_delete_data(storage[name], size)
         IN  [storage |-> WithEntry(storage, name, o.self), panic |-> o.panic]
    ELSE [storage |-> storage, panic |-> FALSE]

\* A loop that stops one element short.
MaidSendableData_DropLast(storage, order) ==
    [i \in 1 .. Len(order) - 1 |->
        GenericSendableType(order[i], 0, EncodeMaidManagerAccount(storage[order[i]]))]

\* The sendable_data built from the drained elements, taken in the given order.
MaidSendableData(storage, order) ==
    [i \in 1 .. Len(order) |->
        GenericSendableType(order[i], 0, EncodeMaidManagerAccount(storage[order[i]]))]

\* The orders in which storage.drain() can yield the elements.
DrainOrders(storage) == Orders(DOMAIN storage)

\* A drain that hands the elements out and leaves them in the map.
Drained_KeepEntries(storage) == storage

\* The map once storage.drain() has been consumed: every element removed.
Drained(storage) == [n \in DOMAIN storage \ DOMAIN storage |-> storage[n]]

----------------------------------------------------------------------------
(* PmidManagerAccount *)

PmidManagerAccount_new ==
    [stored_total_size |-> U64(0), lost_total_size |-> U64(0),
     offered_space |-> U64(DefaultGrant)]

\* put_data that also debits offered_space, as the client account debits
\* space_available.
PmidManagerAccount_put_data_Debit(self, size) ==
    LET sum == U64Add(self.stored_total_size, size)
    IN  IF sum.overflow /\ overflow_checks
        THEN [Running(self) EXCEPT !.panic = TRUE]
        ELSE IF U64Gt(sum.val, self.offered_space)
        THEN Return(Running(self), FALSE)
        ELSE Return(SubAssign(AddAssign(Running(self), "stored_total_size", size),
                              "offered_space", size),
                    TRUE)

PmidManagerAccount_put_data(self, size) ==
    LET sum == U64Add(self.stored_total_size, size)
    IN  IF sum.overflow /\ overflow_checks
        THEN [Running(self) EXCEPT !.panic = TRUE]
        ELSE IF U64Gt(sum.val, self.offered_space)
        THEN Return(Running(self), FALSE)
        ELSE Return(AddAssign(Running(self), "stored_total_size", size), TRUE)

PmidManagerAccount_delete_data(self, size) ==
    IF U64Lt(self.stored_total_size, size)
    THEN Assign(Running(self), "stored_total_size", U64(0))
    ELSE SubAssign(Running(self), "stored_total_size", size)

PmidManagerAccount_handle_lost_data(self, size) ==
    AddAssign(PmidManagerAccount_delete_data(self, size), "lost_total_size", size)

PmidManagerAccount_handle_falure(self, size) ==
    PmidManagerAccount_handle_lost_data(self, size)

PmidManagerAccount_set_available_size(self, available_size) ==
    Assign(Running(self), "offered_space", available_size)

\* update_account that counts as lost only what was actually stored.
PmidManagerAccount_update_account_LostStored(self, diff_size) ==
    IF U64Lt(self.stored_total_size, diff_size)
    THEN AddAssign(Assign(Running(self), "stored_total_size", U64(0)),
                   "lost_total_size", self.stored_total_size)
    ELSE AddAssign(SubAssign(Running(self), "stored_total_size", diff_size),
                   "lost_total_size", diff_size)

PmidManagerAccount_update_account(self, diff_size) ==
    AddAssign(IF U64Lt(self.stored_total_size, diff_size)
              THEN Assign(Running(self), "stored_total_size", U64(0))
              ELSE SubAssign(Running(self), "stored_total_size", diff_size),
              "lost_total_size", diff_size)

----------------------------------------------------------------------------
(* PmidManagerDatabase: the operations as functions of the storage. *)

PmidManagerDatabase_new == << >>

PmidManagerDatabase_exist(storage, name) == name \in DOMAIN storage

\* put_data that keeps a newly made entry only when the put succeeds.
PmidManagerDatabase_put_data_KeepOnSuccess(storage, name, size) ==
    LET inserted == OrInsert(storage, name, PmidManagerAccount_new)
        o == PmidManagerAccount_put_data(inserted[name], size)
    IN  [storage |-> IF o.ret \/ name \in DOMAIN storage
                     THEN WithEntry(inserted, name, o.self)
                     ELSE storage,
         ret |-> o.ret, panic |-> o.panic]

\* [storage, ret, panic]
PmidManagerDatabase_put_data(storage, name, size) ==
    LET inserted == OrInsert(storage, name, PmidManagerAccount_new)
        o == PmidManagerAccount_put_data(inserted[name], size)
    IN  [storage |-> WithEntry(inserted, name, o.self),
         ret |-> o.ret, panic |-> o.panic]

\* close_group.iter().find(|a| **a == name).is_some()
InCloseGroup(close_group, name) ==
    \E i \in 1 .. Len(close_group) : close_group[i] = name

\* The names of order that are found in close_group, in their order: the
\* elements the loop pushes.
RECURSIVE Emitted(_, _)
Emitted(order, close_group) ==
    IF order = << >> THEN << >>
    ELSE (IF InCloseGroup(close_group, Head(order)) THEN << Head(order) >> ELSE << >>)
           \o Emitted(Tail(order), close_group)

\* The client drain's loop: every drained element is pushed.
PmidSendableData_NoFilter(storage, order, close_group) ==
    [i \in 1 .. Len(order) |->
        GenericSendableType(order[i], 0, EncodePmidManagerAccount(storage[order[i]]))]

\* The sendable_data built from the drained elements, taken in the given order.
PmidSendableData(storage, order, close_group) ==
    LET kept == Emitted(order, close_group)
    IN  [i \in 1 .. Len(kept) |->
            GenericSendableType(kept[i], 0, EncodePmidManagerAccount(storage[kept[i]]))]

----------------------------------------------------------------------------
(* The record of the last call.  before is the object the call was made on
   (a storage, or the single account) as it was when the call was made. *)

Call(db, op, name, size, close_group, ret, sendable_data, before) ==
    [db |-> db, op |-> op, name |-> name, size |-> size,
     close_group |-> close_group, ret |-> ret,
     sendable_data |-> sendable_data, before |-> before]

NoCall == Call("none", "new", 0, U64(0), << >>, FALSE, << >>, << >>)

\* A call can be made on object db: the thread is alive, the exploration is
\* not at its bound, and db is the object this behaviour drives.  The two
\* stores and the single account share no state, so a behaviour drives one
\* of them, chosen by its first call.
CanCall(db, bound) ==
    /\ ~panicked
    /\ steps < bound
    /\ call.db \in {"none", db}

----------------------------------------------------------------------------
(* MaidManagerDatabase: the calls. *)

MaidExist(name) ==
    /\ CanCall("maid", MaxSteps)
    /\ call' = Call("maid", "exist", name, U64(0), << >>,
                    MaidManagerDatabase_exist(maid_storage, name), << >>, maid_storage)
    /\ steps' = steps + 1
    /\ UNCHANGED <<maid_storage, pmid_storage, pmid_account, overflow_checks,
                   panicked, frame>>

MaidPutData(name, size) ==
    /\ CanCall("maid", MaxSteps)
    /\ LET r == MaidManagerDatabase_put_data(maid_storage, name, size)
       IN  /\ maid_storage' = r.storage
           /\ panicked' = r.panic
           /\ call' = Call("maid", "put_data", name, size, << >>, r.ret, << >>,
                           maid_storage)
    /\ steps' = steps + 1
    /\ UNCHANGED <<pmid_storage, pmid_account, overflow_checks, frame>>

MaidDeleteData(name, size) ==
    /\ CanCall("maid", MaxSteps)
    /\ LET r == MaidManagerDatabase_delete_data(maid_storage, name, size)
       IN  /\ maid_storage' = r.storage
           /\ panicked' = r.panic
           /\ call' = Call("maid", "delete_data", name, size, << >>, FALSE, << >>,
                           maid_storage)
    /\ steps' = steps + 1
    /\ UNCHANGED <<pmid_storage, pmid_account, overflow_checks, frame>>

MaidRetrieveAllAndReset ==
    /\ CanCall("maid", MaxSteps)
    /\ \E order \in DrainOrders(maid_storage) :
          call' = Call("maid", "retrieve_all_and_reset", 0, U64(0), << >>, FALSE,
                       MaidSendableData(maid_storage, order), maid_storage)
    /\ maid_storage' = Drained(maid_storage)
    /\ steps' = steps + 1
    /\ UNCHANGED <<pmid_storage, pmid_account, overflow_checks, panicked, frame>>

MaidNext ==
    \/ \E name \in Identity : MaidExist(name)
    \/ \E name \in Identity, size \in Sizes : MaidPutData(name, size)
    \/ \E name \in Identity, size \in Sizes : MaidDeleteData(name, size)
    \/ MaidRetrieveAllAndReset

----------------------------------------------------------------------------
(* PmidManagerDatabase: the calls. *)

\* The close_group vectors the drain is called with.
CloseGroups == SeqsUpTo(Identity, MaxGroupLen)

PmidExist(name) ==
    /\ CanCall("pmid", MaxSteps)
    /\ call' = Call("pmid", "exist", name, U64(0), << >>,
                    PmidManagerDatabase_exist(pmid_storage, name), << >>, pmid_storage)
    /\ steps' = steps + 1
    /\ UNCHANGED <<maid_storage, pmid_storage, pmid_account, overflow_checks,
                   panicked, frame>>

PmidPutData(name, size) ==
    /\ CanCall("pmid", MaxSteps)
    /\ LET r == PmidManagerDatabase_put_data(pmid_storage, name, size)
       IN  /\ pmid_storage' = r.storage
           /\ panicked' = r.panic
           /\ call' = Call("pmid", "put_data", name, size, << >>, r.ret, << >>,
                           pmid_storage)
    /\ steps' = steps + 1
    /\ UNCHANGED <<maid_storage, pmid_account, overflow_checks, frame>>

PmidRetrieveAllAndReset(close_group) ==
    /\ CanCall("pmid", MaxSteps)
    /\ \E order \in DrainOrders(pmid_storage) :
          call' = Call("pmid", "retrieve_all_and_reset", 0, U64(0), close_group, FALSE,
                       PmidSendableData(pmid_storage, order, close_group),
                       pmid_storage)
    /\ pmid_storage' = Drained(pmid_storage)
    /\ steps' = steps + 1
    /\ UNCHANGED <<maid_storage, pmid_account, overflow_checks, panicked, frame>>

PmidNext ==
    \/ \E name \in Identity : PmidExist(name)
    \/ \E name \in Identity, size \in Sizes : PmidPutData(name, size)
    \/ \E close_group \in CloseGroups : PmidRetrieveAllAndReset(close_group)

----------------------------------------------------------------------------
(* PmidManagerAccount: the calls on a single account. *)

\* A method of the account is called with size and leaves outcome o.
AccountCall(op, size, o) ==
    /\ CanCall("pmid_account", MaxAccountSteps)
    /\ pmid_account' = o.self
    /\ panicked' = o.panic
    /\ call' = Call("pmid_account", op, 0, size, << >>, o.ret, << >>, pmid_account)
    /\ steps' = steps + 1
    /\ UNCHANGED <<maid_storage, pmid_storage, overflow_checks, frame>>

AccountPutData(size) ==
    AccountCall("put_data", size, PmidManagerAccount_put_data(pmid_account, size))

AccountDeleteData(size) ==
    AccountCall("delete_data", size, PmidManagerAccount_delete_data(pmid_account, size))

AccountHandleLostData(size) ==
    AccountCall("handle_lost_data", size,
                PmidManagerAccount_handle_lost_data(pmid_account, size))

AccountHandleFalure(size) ==
    AccountCall("handle_falure", size,
                PmidManagerAccount_handle_falure(pmid_account, size))

AccountSetAvailableSize(size) ==
    AccountCall("set_available_size", size,
                PmidManagerAccount_set_available_size(pmid_account, size))

AccountUpdateAccount(size) ==
    AccountCall("update_account", size,
                PmidManagerAccount_update_account(pmid_account, size))

AccountNext ==
    \E size \in Sizes :
        \/ AccountPutData(size)
        \/ AccountDeleteData(size)
        \/ AccountHandleLostData(size)
        \/ AccountHandleFalure(size)
        \/ AccountSetAvailableSize(size)
        \/ AccountUpdateAccount(size)

----------------------------------------------------------------------------
(* Several actors on one store.  Every method of a store takes &mut self, so
   a call holds the store exclusively from its entry to its return.
   retrieve_all_and_reset is taken statement by statement: storage.drain()
   yields the elements one at a time into data, then the loop encodes the
   elements one at a time into sendable_data; the other methods run in one
   step.  frame is the call frame of the drain in progress:

     actor          the actor inside retrieve_all_and_reset (0: nobody)
     pc             "idle", "drain" (collecting) or "encode" (in the loop)
     db             the store being drained
     close_group    the argument of the node store's drain
     entered_at     the number of calls completed when the drain was entered
     before         the storage as it was at entry
     data           the elements collected and not yet encoded
     sendable_data  the list built so far                                  *)

Actors == 1 .. NumActors

IdleFrame ==
    [actor |-> 0, pc |-> "idle", db |-> "none", close_group |-> << >>,
     entered_at |-> 0, before |-> << >>, data |-> << >>, sendable_data |-> << >>]

StorageOf(db) == IF db = "maid" THEN maid_storage ELSE pmid_storage

\* Methods that take the store shared (&self), so that a call can start
\* while another actor is inside retrieve_all_and_reset.
Exclusive_Shared == TRUE

\* The store can be taken as &mut self: no actor is inside one of its methods.
Exclusive == frame.actor = 0

\* Actor a can call exist, put_data or delete_data.
Turn(a) ==
    /\ a # frame.actor
    /\ steps < MaxActorSteps
    /\ Exclusive

\* Actor a enters retrieve_all_and_reset.
DrainEnter(a, db, close_group) ==
    /\ CanCall(db, MaxActorSteps)
    /\ Exclusive
    /\ frame' = [actor |-> a,
                 pc |-> IF StorageOf(db) = << >> THEN "encode" ELSE "drain",
                 db |-> db,
                 close_group |-> close_group,
                 entered_at |-> steps,
                 before |-> StorageOf(db),
                 data |-> << >>,
                 sendable_data |-> << >>]
    /\ UNCHANGED <<maid_storage, pmid_storage, pmid_account, call, steps,
                   overflow_checks, panicked>>

\* The storage without the entry of name.
Without(storage, name) == [n \in DOMAIN storage \ {name} |-> storage[n]]

\* storage.drain() yields one more element.
DrainTake(name) ==
    /\ ~panicked
    /\ frame.pc = "drain"
    /\ name \in DOMAIN StorageOf(frame.db)
    /\ LET storage == StorageOf(frame.db)
           rest == Without(storage, name)
       IN  /\ frame' = [frame EXCEPT !.data = Append(@, << name, storage[name] >>),
                                     !.pc = IF rest = << >> THEN "encode" ELSE "drain"]
           /\ maid_storage' = IF frame.db = "maid" THEN rest ELSE maid_storage
           /\ pmid_storage' = IF frame.db = "pmid" THEN rest ELSE pmid_storage
    /\ UNCHANGED <<pmid_account, call, steps, overflow_checks, panicked>>

\* One turn of the loop over data.
DrainEncode ==
    /\ ~panicked
    /\ frame.pc = "encode"
    /\ frame.data # << >>
    /\ LET element == Head(frame.data)
           pushed ==
               IF frame.db = "maid"
               THEN << GenericSendableType(element[1], 0,
                                           EncodeMaidManagerAccount(element[2])) >>
               ELSE IF InCloseGroup(frame.close_group, element[1])
               THEN << GenericSendableType(element[1], 0,
                                           EncodePmidManagerAccount(element[2])) >>
               ELSE << >>
       IN  frame' = [frame EXCEPT !.data = Tail(@),
                                  !.sendable_data = @ \o pushed]
    /\ UNCHANGED <<maid_storage, pmid_storage, pmid_account, call, steps,
                   overflow_checks, panicked>>

\* retrieve_all_and_reset returns sendable_data.
DrainReturn ==
    /\ ~panicked
    /\ frame.pc = "encode"
    /\ frame.data = << >>
    /\ call' = Call(frame.db, "retrieve_all_and_reset", 0, U64(0), frame.close_group,
                    FALSE, frame.sendable_data, frame.before)
    /\ frame' = IdleFrame
    /\ steps' = steps + 1
    /\ UNCHANGED <<maid_storage, pmid_storage, pmid_account, overflow_checks, panicked>>

\* The sizes the actors call with: what is stored matters here only in that
\* entries differ and change.
ActorSizes == { U64(1), U64(DefaultGrant) }

ActorsNext ==
    \/ \E a \in Actors, name \in Identity : Turn(a) /\ MaidExist(name)
    \/ \E a \in Actors, name \in Identity, size \in ActorSizes :
          Turn(a) /\ MaidPutData(name, size)
    \/ \E a \in Actors, name \in Identity, size \in ActorSizes :
          Turn(a) /\ MaidDeleteData(name, size)
    \/ \E a \in Actors, name \in Identity : Turn(a) /\ PmidExist(name)
    \/ \E a \in Actors, name \in Identity, size \in ActorSizes :
          Turn(a) /\ PmidPutData(name, size)
    \/ \E a \in Actors : DrainEnter(a, "maid", << >>)
    \/ \E a \in Actors, close_group \in CloseGroups : DrainEnter(a, "pmid", close_group)
    \/ \E name \in Identity : DrainTake(name)
    \/ DrainEncode
    \/ DrainReturn

----------------------------------------------------------------------------
(* Specifications *)

Init ==
    /\ maid_storage = MaidManagerDatabase_new
    /\ pmid_storage = PmidManagerDatabase_new
    /\ pmid_account = PmidManagerAccount_new
    /\ call = NoCall
    /\ steps = 0
    /\ overflow_checks \in BOOLEAN
    /\ panicked = FALSE
    /\ frame = IdleFrame

\* One caller: every call is one step.
Next == MaidNext \/ PmidNext \/ AccountNext

Spec == Init /\ [][Next]_vars

\* Several actors on one store, the drain taken statement by statement.
SpecActors == Init /\ [][ActorsNext]_vars

----------------------------------------------------------------------------
(* Vocabulary of the properties *)

\* The last call was op on object db.
Acted(db, op) == call.db = db /\ call.op = op

\* The exact sum a + b, when it fits a u64.
ExactSum(a, b) == [val |-> U64Add(a, b).val, overflow |-> FALSE]

\* c = a + b, without wrapping.
IsSum(c, a, b) == U64Add(a, b) = [val |-> c, overflow |-> FALSE]

\* c = a - b, without wrapping.
IsDifference(c, a, b) == U64Sub(a, b) = [val |-> c, overflow |-> FALSE]

\* The entry a store's put_data or delete_data worked on, as it was when the
\* account's method was entered: the tracked entry, or the one just inserted.
EntryBefore(new_account) ==
    IF call.name \in DOMAIN call.before THEN call.before[call.name] ELSE new_account

\* The names of the drained elements the last drain has returned.
EmittedNames == { call.sendable_data[i].name : i \in DOMAIN call.sendable_data }

\* The positions of the returned list that carry the name.
PositionsOf(name) ==
    { i \in DOMAIN call.sendable_data : call.sendable_data[i].name = name }

----------------------------------------------------------------------------
(* C1: in the client store, after any sequence of put_data, delete_data and
   retrieve_all_and_reset calls, every tracked identity's entry has
   data_stored + space_available = 1073741824, the grant fixed at creation. *)
C1_QuotaConservation ==
    \A name \in DOMAIN maid_storage :
        IsSum(U64(DefaultGrant), maid_storage[name].data_stored,
              maid_storage[name].space_available)

\* A delete has left an entry partly used: 1 stored, the rest available.
C1_Witness ==
    /\ Acted("maid", "delete_data")
    /\ call.name \in DOMAIN maid_storage
    /\ maid_storage[call.name].data_stored = U64(1)
    /\ call.before[call.name].data_stored = U64(DefaultGrant)

(* C2: the client put is all-or-nothing.  put_data(size) returns false iff
   size > space_available at the call; on false both fields are unchanged; on
   true data_stored grows by exactly size and space_available shrinks by
   exactly size; size 0 always succeeds and changes nothing. *)
C2_PutAllOrNothing ==
    Acted("maid", "put_data") =>
        LET old == EntryBefore(MaidManagerAccount_new)
            new == maid_storage[call.name]
        IN  /\ ~panicked
            /\ call.ret = FALSE <=> U64Gt(call.size, old.space_available)
            /\ call.ret = FALSE => new = old
            /\ call.ret = TRUE =>
                  /\ IsSum(new.data_stored, old.data_stored, call.size)
                  /\ IsDifference(new.space_available, old.space_available, call.size)
            /\ call.size = U64(0) => call.ret = TRUE /\ new = old

\* A put of 1 refused on a tracked entry with nothing left available.
C2_Witness ==
    /\ Acted("maid", "put_data")
    /\ call.ret = FALSE
    /\ call.size = U64(1)
    /\ call.name \in DOMAIN call.before
    /\ call.before[call.name].space_available = U64(0)

(* C3: the client delete floors at zero and reclaims asymmetrically.  With
   size >= data_stored it leaves data_stored = 0 and space_available grown by
   the stored amount (not by size); with size < data_stored it moves exactly
   size from data_stored to space_available. *)
C3_DeleteFloor ==
    (Acted("maid", "delete_data") /\ call.name \in DOMAIN call.before) =>
        LET old == call.before[call.name]
            new == maid_storage[call.name]
        IN  /\ ~panicked
            /\ U64Le(old.data_stored, call.size) =>
                  /\ new.data_stored = U64(0)
                  /\ IsSum(new.space_available, old.space_available, old.data_stored)
            /\ U64Lt(call.size, old.data_stored) =>
                  /\ IsDifference(new.data_stored, old.data_stored, call.size)
                  /\ IsSum(new.space_available, old.space_available, call.size)

\* A delete of more than the entry holds, on an entry that holds something.
C3_Witness ==
    /\ Acted("maid", "delete_data")
    /\ call.name \in DOMAIN call.before
    /\ call.before[call.name].data_stored = U64(1)
    /\ call.size = U64(DefaultGrant + 1)
    /\ maid_storage[call.name].data_stored = U64(0)

(* C4: implicit creation on put, in both stores.  put_data(identity, size) on
   an identity with no entry, whatever the size and whether it returns true
   or false, leaves exist(identity) true, the entry being the default grant
   with the put applied to it. *)
C4_ImplicitCreation ==
    /\ (Acted("maid", "put_data") /\ call.name \notin DOMAIN call.before) =>
          /\ ~panicked
          /\ MaidManagerDatabase_exist(maid_storage, call.name)
          /\ maid_storage[call.name] =
                IF call.ret
                THEN [data_stored |-> call.size,
                      space_available |-> U64Sub(U64(DefaultGrant), call.size).val]
                ELSE [data_stored |-> U64(0), space_available |-> U64(DefaultGrant)]
    /\ (Acted("pmid", "put_data") /\ call.name \notin DOMAIN call.before) =>
          /\ ~panicked
          /\ PmidManagerDatabase_exist(pmid_storage, call.name)
          /\ pmid_storage[call.name] =
                [stored_total_size |-> IF call.ret THEN call.size ELSE U64(0),
                 lost_total_size |-> U64(0),
                 offered_space |-> U64(DefaultGrant)]

\* A put on an unknown identity of the node store that failed the capacity
\* check, after which the identity is tracked.
C4_Witness ==
    /\ Acted("pmid", "put_data")
    /\ call.name \notin DOMAIN call.before
    /\ call.ret = FALSE
    /\ PmidManagerDatabase_exist(pmid_storage, call.name)

(* C5: in the client store, delete_data(identity, n) on an identity with no
   entry creates no entry and leaves every other identity's entry as it was. *)
C5_DeleteAbsentNoOp ==
    (Acted("maid", "delete_data") /\ call.name \notin DOMAIN call.before) =>
        /\ ~panicked
        /\ ~MaidManagerDatabase_exist(maid_storage, call.name)
        /\ maid_storage = call.before

\* A delete on an unknown identity while another identity is tracked.
C5_Witness ==
    /\ Acted("maid", "delete_data")
    /\ call.name \notin DOMAIN call.before
    /\ call.before # << >>
    /\ call.size = U64(1)

(* C6: the client drain is total.  retrieve_all_and_reset leaves the store
   empty, and returns exactly one (identity, payload) pair for each identity
   tracked before the call and none for any other, the payload being the
   encoding of that identity's entry as it was at the call. *)
C6_DrainTotality ==
    Acted("maid", "retrieve_all_and_reset") =>
        /\ ~panicked
        /\ \A name \in Identity : ~MaidManagerDatabase_exist(maid_storage, name)
        /\ EmittedNames = DOMAIN call.before
        /\ \A name \in DOMAIN call.before :
              /\ Cardinality(PositionsOf(name)) = 1
              /\ \A i \in PositionsOf(name) :
                    /\ call.sendable_data[i].serialised_content =
                          EncodeMaidManagerAccount(call.before[name])
                    /\ call.sendable_data[i].type_tag = 0

\* A drain of a store that tracks two identities with different entries.
C6_Witness ==
    /\ Acted("maid", "retrieve_all_and_reset")
    /\ Cardinality(DOMAIN call.before) = 2
    /\ \E a, b \in DOMAIN call.before : call.before[a] # call.before[b]
    /\ Len(call.sendable_data) = 2

(* C7: the node drain removes all and emits a subset.
   retrieve_all_and_reset(close_group) leaves the store empty, whatever the
   close_group, and the returned list holds exactly the previously tracked
   identities that are members of close_group, each once; tracked identities
   outside close_group are removed without being emitted. *)
C7_NodeDrainAsymmetry ==
    Acted("pmid", "retrieve_all_and_reset") =>
        /\ ~panicked
        /\ \A name \in Identity : ~PmidManagerDatabase_exist(pmid_storage, name)
        /\ EmittedNames =
              { name \in DOMAIN call.before : InCloseGroup(call.close_group, name) }
        /\ \A name \in EmittedNames : Cardinality(PositionsOf(name)) = 1

\* A drain of a store that tracks two identities, with a close_group that
\* names one of them twice: one is emitted once, the other is dropped.
C7_Witness ==
    /\ Acted("pmid", "retrieve_all_and_reset")
    /\ Cardinality(DOMAIN call.before) = 2
    /\ Len(call.close_group) = 2
    /\ call.close_group[1] = call.close_group[2]
    /\ Len(call.sendable_data) = 1
    /\ pmid_storage = << >>

(* C8: entry lifetime, in both stores.  Once exist(identity) is true it stays
   true across every put_data and delete_data (and exist) on any identity
   with any size; it becomes false only by retrieve_all_and_reset. *)
C8_EntryLifetime ==
    /\ (call.db = "maid" /\ call.op # "retrieve_all_and_reset") =>
          \A name \in DOMAIN call.before :
              MaidManagerDatabase_exist(maid_storage, name)
    /\ (call.db = "pmid" /\ call.op # "retrieve_all_and_reset") =>
          \A name \in DOMAIN call.before :
              PmidManagerDatabase_exist(pmid_storage, name)

\* A delete has brought an entry that held something down to nothing stored,
\* and the identity is still tracked.
C8_Witness ==
    /\ Acted("maid", "delete_data")
    /\ call.name \in DOMAIN call.before
    /\ call.before[call.name].data_stored # U64(0)
    /\ MaidManagerDatabase_exist(maid_storage, call.name)
    /\ maid_storage[call.name].data_stored = U64(0)

(* C9: the node put caps against a ceiling.  For every node entry and every
   size whose sum with stored_total_size fits in a u64, put_data(size)
   returns false and leaves the entry unchanged iff
   stored_total_size + size > offered_space; otherwise it returns true with
   stored_total_size grown by exactly size; offered_space and
   lost_total_size are unchanged either way. *)
C9_NodePutCaps ==
    (Acted("pmid_account", "put_data")
       /\ ~U64Add(call.before.stored_total_size, call.size).overflow) =>
        LET old == call.before
            new == pmid_account
            sum == U64Add(old.stored_total_size, call.size).val
        IN  /\ ~panicked
            /\ call.ret = FALSE <=> U64Gt(sum, old.offered_space)
            /\ call.ret = FALSE => new = old
            /\ call.ret = TRUE => new.stored_total_size = sum
            /\ new.offered_space = old.offered_space
            /\ new.lost_total_size = old.lost_total_size

\* A put refused although its size alone is within offered_space: what is
\* already stored counts against the ceiling.
C9_Witness ==
    /\ Acted("pmid_account", "put_data")
    /\ call.ret = FALSE
    /\ call.before.stored_total_size # U64(0)
    /\ U64Le(call.size, call.before.offered_space)
    /\ ~U64Add(call.before.stored_total_size, call.size).overflow

(* C10: the redundant node loss operations agree.  From the same entry and
   with the same size, handle_lost_data, handle_falure and update_account
   each leave the same entry (and panic, or not, alike). *)
C10_LossOperationsAgree ==
    (call.db = "pmid_account"
       /\ call.op \in {"handle_lost_data", "handle_falure", "update_account"}) =>
        LET done == [self |-> pmid_account, ret |-> call.ret, panic |-> panicked]
        IN  /\ PmidManagerAccount_handle_lost_data(call.before, call.size) = done
            /\ PmidManagerAccount_handle_falure(call.before, call.size) = done
            /\ PmidManagerAccount_update_account(call.before, call.size) = done

\* update_account with more than the entry holds, on an entry that holds
\* something: stored floors at zero and the whole size is counted lost.
C10_Witness ==
    /\ Acted("pmid_account", "update_account")
    /\ call.before.stored_total_size # U64(0)
    /\ U64Lt(call.before.stored_total_size, call.size)
    /\ pmid_account.stored_total_size = U64(0)
    /\ pmid_account.lost_total_size # call.before.lost_total_size
    /\ ~panicked

----------------------------------------------------------------------------
(* C11: the drain is atomic.  With several actors calling exist, put_data,
   delete_data and retrieve_all_and_reset on one store, no call of another
   actor runs on a store from which some but not all of the entries tracked
   at the drain's entry have been taken, and every element the drain holds
   or has emitted is the entry as it was at the drain's entry. *)
C11_AtomicDrain ==
    /\ (frame.pc # "idle" /\ steps > frame.entered_at) =>
          \/ DOMAIN call.before = DOMAIN frame.before
          \/ DOMAIN call.before = {}
    /\ frame.pc # "idle" =>
          /\ \A i \in DOMAIN frame.data :
                /\ frame.data[i][1] \in DOMAIN frame.before
                /\ frame.data[i][2] = frame.before[frame.data[i][1]]
          /\ \A i \in DOMAIN frame.sendable_data :
                LET name == frame.sendable_data[i].name
                IN  /\ name \in DOMAIN frame.before
                    /\ frame.sendable_data[i].serialised_content =
                          IF frame.db = "maid"
                          THEN EncodeMaidManagerAccount(frame.before[name])
                          ELSE EncodePmidManagerAccount(frame.before[name])
    /\ call.op = "retrieve_all_and_reset" =>
          \A i \in DOMAIN call.sendable_data :
              LET name == call.sendable_data[i].name
              IN  /\ name \in DOMAIN call.before
                  /\ call.sendable_data[i].serialised_content =
                        IF call.db = "maid"
                        THEN EncodeMaidManagerAccount(call.before[name])
                        ELSE EncodePmidManagerAccount(call.before[name])

\* Actor 2 is inside the drain of a store that tracked two identities, one
\* taken and one not yet: the store is partially drained, and no other actor
\* can call.
C11_Witness ==
    /\ frame.actor = 2
    /\ frame.pc = "drain"
    /\ Cardinality(DOMAIN frame.before) = 2
    /\ Len(frame.data) = 1
    /\ Cardinality(DOMAIN StorageOf(frame.db)) = 1
    /\ \A a \in Actors : ~Turn(a)

(* C12: the node put rejects sizes that overflow the capacity check.  For
   every node entry and every size such that stored_total_size + size
   exceeds 2^64 - 1, put_data(size) returns false and leaves
   stored_total_size unchanged: the comparison with offered_space is never
   decided on a sum wrapped modulo 2^64.  (A call that panics returns
   nothing; it is not counted against the statement here.) *)
C12_PutRejectsOverflow ==
    (Acted("pmid_account", "put_data")
       /\ U64Add(call.before.stored_total_size, call.size).overflow
       /\ ~panicked) =>
        /\ call.ret = FALSE
        /\ pmid_account.stored_total_size = call.before.stored_total_size

\* stored_total_size after a floor-at-zero debit of size.
FlooredAt(stored, size) ==
    IF U64Le(size, stored) THEN U64Sub(stored, size).val ELSE U64(0)

(* C13: node loss accounting.  For every node entry and size,
   handle_lost_data(size) leaves stored_total_size - size when
   size <= stored_total_size and 0 otherwise, lost_total_size + size (the
   full requested size), and offered_space unchanged; delete_data(size)
   applies the same floor to stored_total_size and changes neither
   lost_total_size nor offered_space. *)
C13_LossAccounting ==
    /\ Acted("pmid_account", "handle_lost_data") =>
          /\ pmid_account.stored_total_size =
                FlooredAt(call.before.stored_total_size, call.size)
          /\ IsSum(pmid_account.lost_total_size, call.before.lost_total_size, call.size)
          /\ pmid_account.offered_space = call.before.offered_space
    /\ Acted("pmid_account", "delete_data") =>
          /\ pmid_account.stored_total_size =
                FlooredAt(call.before.stored_total_size, call.size)
          /\ pmid_account.lost_total_size = call.before.lost_total_size
          /\ pmid_account.offered_space = call.before.offered_space

\* stored_total_size <= offered_space
WithinOffer(account) == U64Le(account.stored_total_size, account.offered_space)

(* C14: the node capacity invariant and its only breaker.  From a default
   entry, put_data, delete_data, handle_lost_data, handle_falure and
   update_account keep stored_total_size <= offered_space;
   set_available_size(v) sets offered_space to v whatever v is, leaves
   stored_total_size and lost_total_size unchanged, and is the only call
   after which stored_total_size > offered_space can come to hold; while it
   holds, every put_data, size 0 included, fails and changes nothing. *)
C14_CapacityInvariant ==
    /\ (call.db = "pmid_account" /\ call.op # "set_available_size"
          /\ WithinOffer(call.before)) => WithinOffer(pmid_account)
    /\ Acted("pmid_account", "set_available_size") =>
          pmid_account = [call.before EXCEPT !.offered_space = call.size]
    /\ (Acted("pmid_account", "put_data") /\ ~WithinOffer(call.before) /\ ~panicked) =>
          /\ call.ret = FALSE
          /\ pmid_account = call.before

(* C15: full reclaim after an over-sized delete in the client store.  After
   delete_data(A, size) with size >= data_stored on a tracked identity A,
   put_data(A, 1073741825) returns false, put_data(A, 1073741824) returns
   true and a following put_data(A, 1) returns false; in every state,
   put_data(A, n) on a tracked A returns true iff n <= 1073741824 minus the
   amount recorded as stored. *)
C15_FullReclaim ==
    /\ (Acted("maid", "delete_data") /\ call.name \in DOMAIN call.before
          /\ U64Le(call.before[call.name].data_stored, call.size)) =>
          LET first == MaidManagerDatabase_put_data(maid_storage, call.name,
                                                    U64(DefaultGrant + 1))
              second == MaidManagerDatabase_put_data(first.storage, call.name,
                                                     U64(DefaultGrant))
              third == MaidManagerDatabase_put_data(second.storage, call.name, U64(1))
          IN  /\ ~first.panic /\ first.ret = FALSE
              /\ ~second.panic /\ second.ret = TRUE
              /\ ~third.panic /\ third.ret = FALSE
    /\ \A name \in DOMAIN maid_storage, n \in Sizes :
          LET put == MaidManagerDatabase_put_data(maid_storage, name, n)
              room == U64Sub(U64(DefaultGrant), maid_storage[name].data_stored)
          IN  /\ ~put.panic
              /\ ~room.overflow
              /\ put.ret = TRUE <=> U64Le(n, room.val)

\* A delete of 1073741825 on an entry that was full.
C15_Witness ==
    /\ Acted("maid", "delete_data")
    /\ call.name \in DOMAIN call.before
    /\ call.before[call.name].data_stored = U64(DefaultGrant)
    /\ call.size = U64(DefaultGrant + 1)
    /\ maid_storage[call.name] = MaidManagerAccount_new

(* The storages one call of PmidManagerDatabase can leave behind: exist
   leaves the storage as it is, put_data leaves its result unless it panics,
   retrieve_all_and_reset leaves the empty map.  The impl has no other
   method. *)
PmidSuccessors(storage) ==
    {storage}
      \cup { PmidManagerDatabase_new }
      \cup { r.storage : r \in { q \in { PmidManagerDatabase_put_data(storage, name, size) :
                                             name \in Identity, size \in Sizes } :
                                  ~q.panic } }

(* C16: the node store offers a per-identity delete.  For every tracked
   identity and every size one call of the store leaves the storage in which
   that entry's stored_total_size is lowered by size, floored at zero, and
   every other entry is as before; for an absent identity a call leaves the
   storage unchanged. *)
C16_NodeStoreDelete ==
    \A name \in Identity, size \in Sizes :
        LET deleted ==
              IF name \in DOMAIN pmid_storage
                THEN [pmid_storage EXCEPT
                        ![name] = PmidManagerAccount_delete_data(@, size).self]
                ELSE pmid_storage
        IN  deleted \in PmidSuccessors(pmid_storage)

(* C17: per-identity isolation.  In both stores put_data(A, size) and
   delete_data(A, size) change at most the entry of A: every identity B # A
   is tracked after the call iff it was tracked before, with the same fields;
   exist changes nothing. *)
C17_Isolation ==
    /\ (call.db \in {"maid", "pmid"} /\ call.op \in {"put_data", "delete_data"}) =>
          \A other \in Identity \ {call.name} :
              /\ other \in DOMAIN StorageOf(call.db) <=> other \in DOMAIN call.before
              /\ other \in DOMAIN call.before =>
                    StorageOf(call.db)[other] = call.before[other]
    /\ (call.db \in {"maid", "pmid"} /\ call.op = "exist") =>
          StorageOf(call.db) = call.before

\* A put that changed the entry of one identity while another, holding data,
\* was tracked.
C17_Witness ==
    /\ call.db \in {"maid", "pmid"}
    /\ call.op = "put_data"
    /\ call.ret = TRUE
    /\ StorageOf(call.db)[call.name] # EntryBefore(StorageOf(call.db)[call.name])
    /\ \E other \in DOMAIN call.before \ {call.name} :
          /\ call.before[other] \notin {MaidManagerAccount_new, PmidManagerAccount_new}
          /\ call.before[other] # StorageOf(call.db)[call.name]

(* C18: the drain resets quota usage.  In both stores, after
   retrieve_all_and_reset a put_data(A, size) on any identity A that was
   tracked before the drain does what it does on a store that never saw A:
   it returns true iff size <= 1073741824 and then records exactly size as
   stored, whatever A had stored before the drain. *)
C18_DrainResetsUsage ==
    /\ Acted("maid", "retrieve_all_and_reset") =>
          \A name \in DOMAIN call.before, size \in Sizes :
              LET put == MaidManagerDatabase_put_data(maid_storage, name, size)
              IN  /\ put = MaidManagerDatabase_put_data(MaidManagerDatabase_new, name, size)
                  /\ ~put.panic
                  /\ put.ret = TRUE <=> U64Le(size, U64(DefaultGrant))
                  /\ put.ret = TRUE => put.storage[name].data_stored = size
                  /\ put.ret = FALSE => put.storage[name].data_stored = U64(0)
    /\ Acted("pmid", "retrieve_all_and_reset") =>
          \A name \in DOMAIN call.before, size \in Sizes :
              LET put == PmidManagerDatabase_put_data(pmid_storage, name, size)
              IN  /\ put = PmidManagerDatabase_put_data(PmidManagerDatabase_new, name, size)
                  /\ ~put.panic
                  /\ put.ret = TRUE <=> U64Le(size, U64(DefaultGrant))
                  /\ put.ret = TRUE => put.storage[name].stored_total_size = size
                  /\ put.ret = FALSE => put.storage[name].stored_total_size = U64(0)

\* A drain, of either store, of a map in which an identity had used its whole
\* grant.
C18_Witness ==
    \/ /\ Acted("maid", "retrieve_all_and_reset")
       /\ \E name \in DOMAIN call.before :
             call.before[name].data_stored = U64(DefaultGrant)
    \/ /\ Acted("pmid", "retrieve_all_and_reset")
       /\ \E name \in DOMAIN call.before :
             call.before[name].stored_total_size = U64(DefaultGrant)

(* C19: the states of the node store.  Under exist, put_data and
   retrieve_all_and_reset every tracked entry has lost_total_size = 0,
   offered_space = 1073741824 and stored_total_size <= 1073741824, and the
   stored_total_size of a tracked identity never decreases except by the
   entry being removed in a drain. *)
C19_NodeStoreStates ==
    /\ \A name \in DOMAIN pmid_storage :
          /\ pmid_storage[name].lost_total_size = U64(0)
          /\ pmid_storage[name].offered_space = U64(DefaultGrant)
          /\ U64Le(pmid_storage[name].stored_total_size, U64(DefaultGrant))
    /\ (call.db = "pmid" /\ call.op # "retrieve_all_and_reset") =>
          \A name \in DOMAIN call.before :
              /\ name \in DOMAIN pmid_storage
              /\ U64Le(call.before[name].stored_total_size,
                       pmid_storage[name].stored_total_size)

\* The part of C19 the code keeps: the fields of every tracked entry.
C19_EntryBounds ==
    \A name \in DOMAIN pmid_storage :
        /\ pmid_storage[name].lost_total_size = U64(0)
        /\ pmid_storage[name].offered_space = U64(DefaultGrant)
        /\ U64Le(pmid_storage[name].stored_total_size, U64(DefaultGrant))

(* C20: the client arithmetic never leaves u64.  For an entry created by
   MaidManagerAccount::new and any sequence of put_data and delete_data with
   arbitrary u64 sizes, 2^64 - 1 included, no addition exceeds 2^64 - 1, no
   subtraction goes below 0, no call panics, and data_stored and
   space_available stay within [0, 1073741824]. *)
C20_ClientArithmeticInRange ==
    /\ call.db = "maid" => ~panicked
    /\ \A name \in DOMAIN maid_storage :
          /\ U64Le(maid_storage[name].data_stored, U64(DefaultGrant))
          /\ U64Le(maid_storage[name].space_available, U64(DefaultGrant))
    /\ (Acted("maid", "put_data") /\ call.ret = TRUE) =>
          LET old == EntryBefore(MaidManagerAccount_new)
          IN  /\ ~U64Add(old.data_stored, call.size).overflow
              /\ ~U64Sub(old.space_available, call.size).overflow
    /\ (Acted("maid", "delete_data") /\ call.name \in DOMAIN call.before) =>
          LET old == call.before[call.name]
          IN  IF U64Lt(old.data_stored, call.size)
              THEN ~U64Add(old.space_available, old.data_stored).overflow
              ELSE /\ ~U64Sub(old.data_stored, call.size).overflow
                   /\ ~U64Add(old.space_available, call.size).overflow

\* A call with size 2^64 - 1 on an entry that held data: a delete that
\* emptied it, or a put that was refused.
C20_Witness ==
    /\ call.db = "maid"
    /\ call.size = U64Max
    /\ call.name \in DOMAIN call.before
    /\ call.before[call.name].data_stored # U64(0)
    /\ \/ call.op = "delete_data" /\ maid_storage[call.name] = MaidManagerAccount_new
       \/ call.op = "put_data" /\ call.ret = FALSE

====
